---- MODULE Spec2Model ----
(***************************************************************************)
(* Model of crates/resvg/src/path.rs: conversion of a usvg::Path into      *)
(* FillPath / StrokePath render nodes (convert) and their rasterization    *)
(* (render_fill_path, render_stroke_path).                                 *)
(*                                                                         *)
(* Option<T> is a sequence of length 0 or 1: None == << >>, Some(x) ==     *)
(* <<x>>.  Rectangles are records [l, t, r, b] as in tiny_skia::Rect.      *)
(***************************************************************************)
EXTENDS Integers, Sequences, FiniteSets, TLC

VARIABLES upath, text_bbox, children, pixmap, warnings, last, ncalls

vars == <<upath, text_bbox, children, pixmap, warnings, last, ncalls>>

\* Number of calls (convert / render_*) explored in one behaviour.
MaxCalls == 3

None == << >>
Some(x) == <<x>>

----------------------------------------------------------------------------
(* Geometry *)

Pt(x, y) == [x |-> x, y |-> y]
Rect(l, t, r, b) == [l |-> l, t |-> t, r |-> r, b |-> b]

width(rc) == rc.r - rc.l
height(rc) == rc.b - rc.t

Min(S) == CHOOSE m \in S : \A n \in S : m <= n
Max(S) == CHOOSE m \in S : \A n \in S : m >= n

\* tiny_skia::Path::bounds(): the bounds of the path's points.
bounds(path) ==
    LET xs == {path[i].x : i \in DOMAIN path}
        ys == {path[i].y : i \in DOMAIN path}
    IN  Rect(Min(xs), Min(ys), Max(xs), Max(ys))

\* tiny_skia::Rect::to_non_zero_rect(): None for a zero width or height.
to_non_zero_rect(rc) ==
    IF width(rc) = 0 \/ height(rc) = 0 THEN None ELSE Some(rc)

\* tiny_skia::NonZeroRect::to_rect(): the same rectangle.
to_rect(nz) == Rect(nz.l, nz.t, nz.r, nz.b)

\* usvg::BBox: from(Rect), and expand() as the union of two boxes; a
\* default (all-zero) box is replaced by the box it is expanded by.
BBoxFrom(rc) == [l |-> rc.l, t |-> rc.t, r |-> rc.r, b |-> rc.b]

expand(bb, rc) ==
    IF bb.l = 0 /\ bb.t = 0 /\ bb.r = 0 /\ bb.b = 0
    THEN BBoxFrom(rc)
    ELSE [l |-> Min({bb.l, rc.l}), t |-> Min({bb.t, rc.t}),
          r |-> Max({bb.r, rc.r}), b |-> Max({bb.b, rc.b})]

\* usvg::ShapeRendering::use_shape_antialiasing()
use_shape_antialiasing(mode) == mode = "GeometricPrecision"

----------------------------------------------------------------------------
(* Paint servers (crate::paint_server) *)

\* paint_server::convert(paint, opacity, object_bbox): a solid colour always
\* resolves; a paint in objectBoundingBox units needs a non-zero object
\* bbox; a gradient without stops resolves to nothing; a pattern resolves
\* to Paint::Pattern carrying its tile rectangle.
paint_server_convert(paint, opacity, object_bbox) ==
    CASE paint.kind = "Color" ->
            Some([variant |-> "Shader", shader |-> "SolidColor",
                  color |-> paint.color, alpha |-> opacity])
      [] paint.kind = "LinearGradient" ->
            IF paint.stops = 0 THEN None
            ELSE IF paint.units = "ObjectBoundingBox" /\ object_bbox = None
            THEN None
            ELSE Some([variant |-> "Shader", shader |-> "LinearGradient",
                       stops |-> paint.stops, alpha |-> opacity,
                       bbox |-> IF paint.units = "ObjectBoundingBox"
                                THEN object_bbox ELSE None])
      [] paint.kind = "Pattern" ->
            IF paint.units = "ObjectBoundingBox" /\ object_bbox = None
            THEN None
            ELSE Some([variant |-> "Pattern", rect |-> paint.rect,
                       alpha |-> opacity,
                       bbox |-> IF paint.units = "ObjectBoundingBox"
                                THEN object_bbox ELSE None])

\* paint_server::prepare_pattern_pixmap(pattern, ctx, transform): the tile
\* is scaled by the transform and rounded to an integer size; a zero-sized
\* tile yields None.  The target pixmap is not an argument.
prepare_pattern_pixmap(pattern, ctx, transform) ==
    LET w == width(pattern.rect) * transform.sx
        h == height(pattern.rect) * transform.sy
    IN  IF w <= 0 \/ h <= 0 THEN None
        ELSE Some([pix |-> [w |-> w, h |-> h, of |-> pattern],
                   ts |-> [sx |-> 1, sy |-> 1,
                           tx |-> pattern.rect.l, ty |-> pattern.rect.t]])

\* usvg::Stroke::to_tiny_skia(): copies width and maps the cap style.
to_tiny_skia(ustroke) ==
    [width |-> ustroke.width,
     line_cap |-> CASE ustroke.linecap = "butt" -> "Butt"
                    [] ustroke.linecap = "round" -> "Round"
                    [] ustroke.linecap = "square" -> "Square"]

----------------------------------------------------------------------------
(* convert *)

\* convert, lines 32-40: the node's bounding box (None is logged and ends
\* the conversion), replaced by the text bounding box when one is given.
effective_bbox_fallback(node, tbbox) ==
    IF node.bounding_box = None
    THEN IF tbbox # None THEN Some(to_rect(tbbox[1])) ELSE None
    ELSE IF tbbox # None THEN Some(to_rect(tbbox[1]))
    ELSE node.bounding_box

effective_bbox(node, tbbox) ==
    IF node.bounding_box = None THEN None
    ELSE IF tbbox # None THEN Some(to_rect(tbbox[1]))
    ELSE node.bounding_box

convert_fill_path_bbox_check(ufill, path, object_bbox, anti_alias) ==
    IF width(object_bbox) = 0 \/ height(object_bbox) = 0 THEN None
    ELSE
      LET rule == CASE ufill.rule = "NonZero" -> "Winding"
                    [] ufill.rule = "EvenOdd" -> "EvenOdd"
          paint == paint_server_convert(ufill.paint, ufill.opacity,
                                         to_non_zero_rect(object_bbox))
      IN  IF paint = None THEN None
          ELSE Some([type |-> "FillPath", paint |-> paint[1], rule |-> rule,
                     anti_alias |-> anti_alias, path |-> path])

convert_fill_path_no_check(ufill, path, object_bbox, anti_alias) ==
    LET rule == CASE ufill.rule = "NonZero" -> "Winding"
                  [] ufill.rule = "EvenOdd" -> "EvenOdd"
        paint == paint_server_convert(ufill.paint, ufill.opacity,
                                       to_non_zero_rect(object_bbox))
    IN  IF paint = None THEN None
        ELSE Some([type |-> "FillPath", paint |-> paint[1], rule |-> rule,
                   anti_alias |-> anti_alias, path |-> path])

convert_fill_path(ufill, path, object_bbox, anti_alias) ==
    IF width(bounds(path)) = 0 \/ height(bounds(path)) = 0 THEN None
    ELSE
      LET rule == CASE ufill.rule = "NonZero" -> "Winding"
                    [] ufill.rule = "EvenOdd" -> "EvenOdd"
          paint == paint_server_convert(ufill.paint, ufill.opacity,
                                         to_non_zero_rect(object_bbox))
      IN  IF paint = None THEN None
          ELSE Some([type |-> "FillPath", paint |-> paint[1], rule |-> rule,
                     anti_alias |-> anti_alias, path |-> path])

convert_stroke_path_zero_check(ustroke, path, object_bbox, anti_alias) ==
    IF width(bounds(path)) = 0 \/ height(bounds(path)) = 0 THEN None
    ELSE
      LET paint == paint_server_convert(ustroke.paint, ustroke.opacity,
                                         to_non_zero_rect(object_bbox))
      IN  IF paint = None THEN None
          ELSE Some([type |-> "StrokePath", paint |-> paint[1],
                     stroke |-> to_tiny_skia(ustroke),
                     anti_alias |-> anti_alias, path |-> path])

convert_stroke_path(ustroke, path, object_bbox, anti_alias) ==
    LET paint == paint_server_convert(ustroke.paint, ustroke.opacity,
                                       to_non_zero_rect(object_bbox))
    IN  IF paint = None THEN None
        ELSE Some([type |-> "StrokePath", paint |-> paint[1],
                   stroke |-> to_tiny_skia(ustroke),
                   anti_alias |-> anti_alias, path |-> path])

\* convert, lines 55-61.
layer_bbox_own(node, bounding_box, stroke_path) ==
    IF stroke_path # None /\ node.stroke_bounding_box # None
    THEN expand(BBoxFrom(node.bounding_box[1]), node.stroke_bounding_box[1])
    ELSE BBoxFrom(node.bounding_box[1])

layer_bbox(node, bounding_box, stroke_path) ==
    IF stroke_path # None /\ node.stroke_bounding_box # None
    THEN expand(BBoxFrom(bounding_box), node.stroke_bounding_box[1])
    ELSE BBoxFrom(bounding_box)

\* convert, lines 63-85: nothing is pushed for a path that is not visible;
\* otherwise the built nodes are pushed in paint order.
push_nodes_hidden_too(node, nodes, fill_path, stroke_path) ==
    IF node.paint_order = "FillAndStroke"
    THEN nodes \o fill_path \o stroke_path
    ELSE nodes \o stroke_path \o fill_path

push_nodes_fill_first(node, nodes, fill_path, stroke_path) ==
    IF node.visibility # "Visible" THEN nodes
    ELSE nodes \o fill_path \o stroke_path

push_nodes_fill_twice(node, nodes, fill_path, stroke_path) ==
    IF node.visibility # "Visible" THEN nodes
    ELSE IF node.paint_order = "FillAndStroke"
    THEN nodes \o fill_path \o stroke_path
    ELSE nodes \o fill_path \o stroke_path \o fill_path

push_nodes(node, nodes, fill_path, stroke_path) ==
    IF node.visibility # "Visible" THEN nodes
    ELSE IF node.paint_order = "FillAndStroke"
    THEN nodes \o fill_path \o stroke_path
    ELSE nodes \o stroke_path \o fill_path

\* A convert whose stroke is only attempted once the fill was built.
convert_stroke_after_fill(node, tbbox, nodes) ==
    LET anti_alias == use_shape_antialiasing(node.rendering_mode)
        bb == effective_bbox(node, tbbox)
    IN  IF bb = None
        THEN [ret |-> None, children |-> nodes, warned |-> TRUE]
        ELSE
          LET bounding_box == bb[1]
              fill_path ==
                IF node.fill = None THEN None
                ELSE convert_fill_path(node.fill[1], node.data,
                                       bounding_box, anti_alias)
              stroke_path ==
                IF node.stroke = None \/ (node.fill # None /\ fill_path = None)
                THEN None
                ELSE convert_stroke_path(node.stroke[1], node.data,
                                         bounding_box, anti_alias)
          IN  IF fill_path = None /\ stroke_path = None
              THEN [ret |-> None, children |-> nodes, warned |-> FALSE]
              ELSE [ret |-> Some(layer_bbox(node, bounding_box, stroke_path)),
                    children |-> push_nodes(node, nodes, fill_path, stroke_path),
                    warned |-> FALSE]

\* convert(upath, text_bbox, children): the returned Option<BBox>, the
\* children vector after the call, and whether the warning was logged.
convert(node, tbbox, nodes) ==
    LET anti_alias == use_shape_antialiasing(node.rendering_mode)
        bb == effective_bbox(node, tbbox)
    IN  IF bb = None
        THEN [ret |-> None, children |-> nodes, warned |-> TRUE]
        ELSE
          LET bounding_box == bb[1]
              fill_path ==
                IF node.fill = None THEN None
                ELSE convert_fill_path(node.fill[1], node.data,
                                       bounding_box, anti_alias)
              stroke_path ==
                IF node.stroke = None THEN None
                ELSE convert_stroke_path(node.stroke[1], node.data,
                                         bounding_box, anti_alias)
          IN  IF fill_path = None /\ stroke_path = None
              THEN [ret |-> None, children |-> nodes, warned |-> FALSE]
              ELSE [ret |-> Some(layer_bbox(node, bounding_box, stroke_path)),
                    children |-> push_nodes(node, nodes, fill_path, stroke_path),
                    warned |-> FALSE]

----------------------------------------------------------------------------
(* render_fill_path / render_stroke_path *)

\* tiny_skia::Paint::default()
PaintDefault ==
    [shader |-> [kind |-> "SolidColor", color |-> "black"],
     anti_alias |-> TRUE, blend_mode |-> "SourceOver"]

\* tiny_skia::Pattern::new(pixmap, SpreadMode::Repeat,
\*                         FilterQuality::Bicubic, opacity, ts)
PatternNew(pix, spread, quality, opacity, ts) ==
    [kind |-> "Pattern", pix |-> pix, spread |-> spread,
     quality |-> quality, opacity |-> opacity, ts |-> ts]

\* The shader of lines 154-171 / 190-207: None when the pattern pixmap
\* cannot be prepared.
paint_shader(paint, ctx, transform) ==
    IF paint.variant = "Shader" THEN Some([kind |-> "Shader", of |-> paint])
    ELSE LET prep == prepare_pattern_pixmap(paint, ctx, transform)
         IN  IF prep = None THEN None
             ELSE Some(PatternNew(prep[1].pix, "Repeat", "Bicubic",
                                  paint.alpha, prep[1].ts))

\* The pixmap is the sequence of rasterizer calls applied to it.
render_fill_path_draw_anyway(path, blend_mode, ctx, transform, pix) ==
    LET sh == paint_shader(path.paint, ctx, transform)
        paint == [PaintDefault EXCEPT
                    !.shader = IF sh = None THEN @ ELSE sh[1],
                    !.anti_alias = path.anti_alias,
                    !.blend_mode = blend_mode]
    IN  [ret |-> IF sh = None THEN None ELSE Some("unit"),
         pixmap |-> Append(pix, [prim |-> "fill_path", path |-> path.path,
                                 paint |-> paint, rule |-> path.rule,
                                 transform |-> transform, mask |-> None])]

render_fill_path(path, blend_mode, ctx, transform, pix) ==
    LET sh == paint_shader(path.paint, ctx, transform)
    IN  IF sh = None THEN [ret |-> None, pixmap |-> pix]
        ELSE
          LET paint == [PaintDefault EXCEPT !.shader = sh[1],
                                            !.anti_alias = path.anti_alias,
                                            !.blend_mode = blend_mode]
          IN  [ret |-> Some("unit"),
               pixmap |-> Append(pix, [prim |-> "fill_path",
                                       path |-> path.path, paint |-> paint,
                                       rule |-> path.rule,
                                       transform |-> transform,
                                       mask |-> None])]

render_stroke_path(path, blend_mode, ctx, transform, pix) ==
    LET sh == paint_shader(path.paint, ctx, transform)
    IN  IF sh = None THEN [ret |-> None, pixmap |-> pix]
        ELSE
          LET paint == [PaintDefault EXCEPT !.shader = sh[1],
                                            !.anti_alias = path.anti_alias,
                                            !.blend_mode = blend_mode]
          IN  [ret |-> Some("unit"),
               pixmap |-> Append(pix, [prim |-> "stroke_path",
                                       path |-> path.path, paint |-> paint,
                                       stroke |-> path.stroke,
                                       transform |-> transform,
                                       mask |-> None])]

----------------------------------------------------------------------------
(* Inputs *)

HLine == <<Pt(0, 0), Pt(2, 0)>>
VLine == <<Pt(1, 0), Pt(1, 2)>>
Box == <<Pt(0, 0), Pt(2, 0), Pt(2, 1), Pt(0, 1)>>
PathDatas == {HLine, VLine, Box}

\* The bounding box of a text chunk: a NonZeroRect.
TextBBox == Rect(-1, -1, 4, 3)

ColorPaint == [kind |-> "Color", color |-> "red"]
ObbGradient ==
    [kind |-> "LinearGradient", units |-> "ObjectBoundingBox", stops |-> 2]
EmptyGradient ==
    [kind |-> "LinearGradient", units |-> "UserSpaceOnUse", stops |-> 0]
PatternPaint ==
    [kind |-> "Pattern", units |-> "UserSpaceOnUse", rect |-> Rect(0, 0, 2, 2)]
Paints == {ColorPaint, ObbGradient, EmptyGradient, PatternPaint}

Fills ==
    {None} \cup
    {Some([paint |-> p, opacity |-> 255,
           rule |-> IF p.kind = "Color" THEN "NonZero" ELSE "EvenOdd"]) :
       p \in Paints}

Strokes ==
    {None} \cup
    {Some([paint |-> p, opacity |-> 128, width |-> 2,
           linecap |-> IF p.kind = "Color" THEN "round" ELSE "butt"]) :
       p \in Paints}

\* The stroke bounding box usvg computes: the bounds grown by the stroke.
StrokeBBoxOf(path) ==
    LET bb == bounds(path) IN Rect(bb.l - 1, bb.t - 1, bb.r + 1, bb.b + 1)

Paths ==
    {[data |-> d,
      bounding_box |-> IF hb THEN Some(bounds(d)) ELSE None,
      stroke_bounding_box |-> IF hs THEN Some(StrokeBBoxOf(d)) ELSE None,
      fill |-> f, stroke |-> s, visibility |-> v, paint_order |-> po,
      rendering_mode |-> rm] :
        d \in PathDatas, hb \in BOOLEAN, hs \in BOOLEAN, f \in Fills,
        s \in Strokes, v \in {"Visible", "Hidden", "Collapse"},
        po \in {"FillAndStroke", "StrokeAndFill"},
        rm \in {"CrispEdges", "GeometricPrecision"}}

Transforms == {[sx |-> 1, sy |-> 1], [sx |-> 2, sy |-> 1], [sx |-> 0, sy |-> 1]}
BlendModes == {"SourceOver", "Multiply"}
Ctx == [max_bbox |-> Rect(0, 0, 8, 8)]

----------------------------------------------------------------------------
(* State machine *)

Init ==
    /\ upath \in Paths
    /\ text_bbox \in {None, Some(TextBBox)}
    /\ children = << >>
    /\ pixmap = << >>
    /\ warnings = 0
    /\ last = [fn |-> "none"]
    /\ ncalls = 0

Convert ==
    /\ ncalls < MaxCalls
    /\ LET res == convert(upath, text_bbox, children)
       IN  /\ children' = res.children
           /\ warnings' = IF res.warned THEN warnings + 1 ELSE warnings
           /\ last' = [fn |-> "convert", ret |-> res.ret, before |-> children]
    /\ ncalls' = ncalls + 1
    /\ UNCHANGED <<upath, text_bbox, pixmap>>

RenderFillPath ==
    /\ ncalls < MaxCalls
    /\ \E i \in DOMAIN children, ts \in Transforms, bm \in BlendModes :
         /\ children[i].type = "FillPath"
         /\ LET res == render_fill_path(children[i], bm, Ctx, ts, pixmap)
            IN  /\ pixmap' = res.pixmap
                /\ last' = [fn |-> "render_fill_path", op |-> children[i],
                            transform |-> ts, ret |-> res.ret,
                            before |-> pixmap]
    /\ ncalls' = ncalls + 1
    /\ UNCHANGED <<upath, text_bbox, children, warnings>>

RenderStrokePath ==
    /\ ncalls < MaxCalls
    /\ \E i \in DOMAIN children, ts \in Transforms, bm \in BlendModes :
         /\ children[i].type = "StrokePath"
         /\ LET res == render_stroke_path(children[i], bm, Ctx, ts, pixmap)
            IN  /\ pixmap' = res.pixmap
                /\ last' = [fn |-> "render_stroke_path", op |-> children[i],
                            transform |-> ts, ret |-> res.ret,
                            before |-> pixmap]
    /\ ncalls' = ncalls + 1
    /\ UNCHANGED <<upath, text_bbox, children, warnings>>

Next == Convert \/ RenderFillPath \/ RenderStrokePath

Spec == Init /\ [][Next]_vars

----------------------------------------------------------------------------
(* Properties *)

AfterConvert == last.fn = "convert"

\* The nodes the last convert call pushed.
Appended == SubSeq(children, Len(last.before) + 1, Len(children))

FillOps(nodes) == {i \in DOMAIN nodes : nodes[i].type = "FillPath"}
StrokeOps(nodes) == {i \in DOMAIN nodes : nodes[i].type = "StrokePath"}

Degenerate(rc) == width(rc) = 0 \/ height(rc) = 0

Reverse(sq) == [i \in 1..Len(sq) |-> sq[Len(sq) + 1 - i]]

Visible == upath.visibility = "Visible"

\* The bounding box in effect: the text bounding box when one is supplied,
\* the node's own otherwise (only used where the node has one).
EffBBox == IF text_bbox # None THEN text_bbox[1] ELSE upath.bounding_box[1]

\* The outcome of resolving the fill / stroke paint against EffBBox.
FillPaint ==
    paint_server_convert(upath.fill[1].paint, upath.fill[1].opacity,
                         to_non_zero_rect(EffBBox))
StrokePaint ==
    paint_server_convert(upath.stroke[1].paint, upath.stroke[1].opacity,
                         to_non_zero_rect(EffBBox))

FillSucceeds ==
    upath.fill # None /\ ~Degenerate(bounds(upath.data)) /\ FillPaint # None
StrokeSucceeds == upath.stroke # None /\ StrokePaint # None

\* EffBBox expanded by the node's stroke bounding box, when it has one.
ExpandedBBox ==
    IF upath.stroke_bounding_box # None
    THEN expand(BBoxFrom(EffBBox), upath.stroke_bounding_box[1])
    ELSE BBoxFrom(EffBBox)

\* C1: for a path whose geometry bounds have zero width or zero height,
\* convert never pushes a FillPath, and with no stroke it returns None,
\* whatever the fill, its paint, or the text bounding box.
C1_NoFillForDegenerate ==
    (AfterConvert /\ Degenerate(bounds(upath.data))) =>
        /\ FillOps(Appended) = {}
        /\ upath.stroke = None => last.ret = None

C1_Witness ==
    /\ AfterConvert
    /\ Degenerate(bounds(upath.data))
    /\ upath.fill # None /\ upath.fill[1].paint = ColorPaint
    /\ text_bbox # None
    /\ Visible
    /\ Len(Appended) = 1 /\ Appended[1].type = "StrokePath"

\* C2: for a path that is not visible, convert pushes nothing and returns
\* what it returns for the same path made visible (stroke expansion
\* included).
C2_HiddenSameBBox ==
    (AfterConvert /\ ~Visible) =>
        /\ children = last.before
        /\ last.ret = convert([upath EXCEPT !.visibility = "Visible"],
                              text_bbox, last.before).ret

C2_Witness ==
    /\ AfterConvert
    /\ upath.visibility = "Hidden"
    /\ upath.bounding_box # None
    /\ last.ret # None
    /\ last.ret[1] # BBoxFrom(EffBBox)
    /\ children = << >>

\* C3: for a visible path, the other paint order pushes the same nodes in
\* reverse order and returns the same bounding box; with both nodes built,
\* FillAndStroke pushes the fill first and StrokeAndFill the stroke first.
C3_PaintOrderReverses ==
    (AfterConvert /\ Visible) =>
        LET other == [upath EXCEPT !.paint_order =
                        IF @ = "FillAndStroke" THEN "StrokeAndFill"
                        ELSE "FillAndStroke"]
            res == convert(other, text_bbox, last.before)
            app == SubSeq(res.children, Len(last.before) + 1,
                          Len(res.children))
        IN  /\ app = Reverse(Appended)
            /\ res.ret = last.ret
            /\ Len(Appended) = 2 =>
                 Appended[1].type =
                    IF upath.paint_order = "FillAndStroke"
                    THEN "FillPath" ELSE "StrokePath"

C3_Witness ==
    /\ AfterConvert /\ Visible
    /\ upath.paint_order = "StrokeAndFill"
    /\ Len(Appended) = 2
    /\ Appended[1].type = "StrokePath" /\ Appended[2].type = "FillPath"

\* C4 (as claimed): the returned box is the node's own bounding box,
\* expanded by its stroke bounding box exactly when a stroke was built; the
\* text bounding box does not change it.
C4_OwnBBoxReturned ==
    (AfterConvert /\ upath.bounding_box # None /\ last.ret # None) =>
        last.ret[1] =
            IF StrokeSucceeds /\ upath.stroke_bounding_box # None
            THEN expand(BBoxFrom(upath.bounding_box[1]),
                        upath.stroke_bounding_box[1])
            ELSE BBoxFrom(upath.bounding_box[1])

\* C4 (amended): the returned box is the bounding box in effect (the text
\* bounding box when supplied, the node's own otherwise), expanded by the
\* node's stroke bounding box exactly when a stroke was built.
C4_EffectiveBBoxReturned ==
    (AfterConvert /\ upath.bounding_box # None /\ last.ret # None) =>
        last.ret[1] =
            IF StrokeSucceeds /\ upath.stroke_bounding_box # None
            THEN expand(BBoxFrom(EffBBox), upath.stroke_bounding_box[1])
            ELSE BBoxFrom(EffBBox)

C4_Witness ==
    /\ AfterConvert
    /\ text_bbox # None
    /\ StrokeSucceeds /\ upath.stroke_bounding_box # None
    /\ last.ret # None
    /\ last.ret[1] # BBoxFrom(upath.bounding_box[1])
    /\ last.ret[1] # expand(BBoxFrom(upath.bounding_box[1]),
                            upath.stroke_bounding_box[1])

\* C5: a render call on a Pattern paint whose pattern pixmap cannot be
\* prepared returns None and leaves the pixmap, earlier drawing included,
\* exactly as it was: the rasterizer is not called.
C5_PatternFailureDrawsNothing ==
    (/\ last.fn \in {"render_fill_path", "render_stroke_path"}
     /\ last.op.paint.variant = "Pattern"
     /\ prepare_pattern_pixmap(last.op.paint, Ctx, last.transform) = None) =>
        /\ last.ret = None
        /\ pixmap = last.before

C5_Witness ==
    /\ last.fn = "render_fill_path"
    /\ last.op.paint.variant = "Pattern"
    /\ last.transform.sx = 0
    /\ last.ret = None
    /\ Len(pixmap) = 1

\* The node with the pipeline that failed taken away.
WithoutFailing ==
    IF FillSucceeds THEN [upath EXCEPT !.stroke = None]
    ELSE [upath EXCEPT !.fill = None]

ExactlyOneFails ==
    /\ AfterConvert
    /\ upath.bounding_box # None
    /\ upath.fill # None /\ upath.stroke # None
    /\ FillSucceeds # StrokeSucceeds

\* The surviving node is pushed alone, as it is without the failing spec.
SiblingUnaffected ==
    /\ children = convert(WithoutFailing, text_bbox, last.before).children
    /\ Visible =>
         /\ Len(Appended) = 1
         /\ Appended[1].type =
              IF FillSucceeds THEN "FillPath" ELSE "StrokePath"
         /\ Appended[1].paint =
              IF FillSucceeds THEN FillPaint[1] ELSE StrokePaint[1]

\* C6 (as claimed): when exactly one of fill and stroke fails, the other
\* node is unaffected and the returned box is the one returned when both
\* are built.
C6_SoftFailureKeepsBBox ==
    ExactlyOneFails =>
        /\ SiblingUnaffected
        /\ last.ret = Some(ExpandedBBox)

\* C6 (amended): when exactly one of fill and stroke fails, the other node
\* is unaffected; a failed fill leaves the returned box as when both are
\* built, a failed stroke leaves it without the stroke expansion.
C6_SoftFailureSkipsOne ==
    ExactlyOneFails =>
        /\ SiblingUnaffected
        /\ last.ret = IF StrokeSucceeds THEN Some(ExpandedBBox)
                      ELSE Some(BBoxFrom(EffBBox))

C6_Witness ==
    /\ ExactlyOneFails /\ Visible
    /\ FillSucceeds /\ ~StrokeSucceeds
    /\ upath.stroke_bounding_box # None
    /\ last.ret = Some(BBoxFrom(EffBBox))
    /\ ExpandedBBox # BBoxFrom(EffBBox)
    /\ Len(Appended) = 1

\* C7: for zero-width or zero-height geometry with a stroke, a StrokePath
\* is built if and only if the stroke paint resolves.
C7_StrokeForDegenerate ==
    (/\ AfterConvert
     /\ upath.bounding_box # None
     /\ Degenerate(bounds(upath.data))
     /\ upath.stroke # None) =>
        /\ last.ret # None <=> StrokePaint # None
        /\ Visible =>
             IF StrokePaint = None THEN StrokeOps(Appended) = {}
             ELSE \E i \in StrokeOps(Appended) :
                    Appended[i].paint = StrokePaint[1]

C7_Witness ==
    /\ AfterConvert /\ Visible
    /\ upath.data = HLine
    /\ text_bbox = None
    /\ upath.stroke # None /\ upath.stroke[1].linecap = "round"
    /\ StrokeOps(Appended) # {}
    /\ last.ret # None

\* C8: a node without a bounding box makes every convert call log the
\* warning, return None and push nothing, text bounding box or not.
C8_MissingBBoxYieldsNothing ==
    upath.bounding_box = None =>
        /\ children = << >>
        /\ warnings = ncalls
        /\ AfterConvert => last.ret = None

C8_Witness ==
    /\ AfterConvert
    /\ upath.bounding_box = None
    /\ text_bbox # None
    /\ upath.fill # None /\ upath.fill[1].paint = ColorPaint
    /\ upath.stroke # None /\ upath.stroke[1].paint = ColorPaint
    /\ Visible
    /\ warnings = 2

\* The fill convert is expected to build, given the box whose zero width
\* or height rejects it.
FillBuiltAs(expected) ==
    /\ Visible =>
         IF expected = None THEN FillOps(Appended) = {}
         ELSE /\ Cardinality(FillOps(Appended)) = 1
              /\ \A i \in FillOps(Appended) : Appended[i].paint = expected[1]
    /\ upath.stroke = None => (last.ret # None <=> expected # None)

\* C9 (as claimed): with a fill, the FillPath is rejected exactly when the
\* bounding box in effect has zero width or height; otherwise it is built
\* iff the paint resolves against that box and the fill opacity.
C9_RejectOnEffectiveBBox ==
    (AfterConvert /\ upath.bounding_box # None /\ upath.fill # None) =>
        FillBuiltAs(IF Degenerate(EffBBox) THEN None ELSE FillPaint)

\* C9 (amended): with a fill, the FillPath is rejected exactly when the
\* bounds of the path geometry have zero width or height, whatever the
\* bounding box in effect; otherwise it is built iff the paint resolves
\* against the bounding box in effect and the fill opacity.
C9_RejectOnPathBounds ==
    (AfterConvert /\ upath.bounding_box # None /\ upath.fill # None) =>
        FillBuiltAs(IF Degenerate(bounds(upath.data)) THEN None
                    ELSE FillPaint)

C9_Witness ==
    /\ AfterConvert /\ Visible
    /\ upath.bounding_box # None /\ upath.fill # None
    /\ text_bbox # None
    /\ Degenerate(bounds(upath.data))
    /\ FillPaint # None
    /\ upath.stroke = None
    /\ last.ret = None

\* C10: convert only appends: the earlier nodes stay as a prefix, nothing
\* is appended when it returns None or the path is not visible, and
\* otherwise one or two nodes are, at most one fill and one stroke.
C10_OnlyAppends ==
    AfterConvert =>
        /\ Len(children) >= Len(last.before)
        /\ SubSeq(children, 1, Len(last.before)) = last.before
        /\ (last.ret = None \/ ~Visible) => children = last.before
        /\ (last.ret # None /\ Visible) =>
             /\ Len(Appended) \in 1..2
             /\ Cardinality(FillOps(Appended)) <= 1
             /\ Cardinality(StrokeOps(Appended)) <= 1
             /\ \A i \in DOMAIN Appended :
                  Appended[i].type \in {"FillPath", "StrokePath"}

C10_Witness ==
    /\ AfterConvert /\ Visible
    /\ Len(last.before) = 2
    /\ Len(Appended) = 2
    /\ last.ret # None

====
